---------------------------- MODULE Spec2Model ----------------------------
(***************************************************************************)
(* Model of the Transatel MCP adapter (src/mcp-https.py, src/auth.py).     *)
(*                                                                         *)
(* Values.  A Python/JSON value is a tagged record:                        *)
(*   [t |-> "null"]                     None / null                        *)
(*   [t |-> "int",  n |-> n]            an integer                         *)
(*   [t |-> "str",  s |-> <<c1,..>>]    a str: the sequence of its pieces; *)
(*                                      strings that the code slices are   *)
(*                                      written one character per piece,   *)
(*                                      literals of the code as one piece  *)
(*   [t |-> "list", l |-> <<x1,..>>]    a list                             *)
(*   [t |-> "obj",  o |-> f]            a dict: f maps its keys to values  *)
(*   [t |-> "jsonstr", j |-> d]         a str that is the JSON text of the *)
(*                                      document d (json.dumps output, or  *)
(*                                      an upstream body that parses)      *)
(* An evaluation that may raise yields [ok |-> TRUE, v |-> value] or       *)
(* [ok |-> FALSE, exc |-> exception class].                                *)
(***************************************************************************)
EXTENDS Integers, Sequences, FiniteSets, TLC

-----------------------------------------------------------------------------
(* Python values and the built-in operations the code applies to them *)

None == [t |-> "null"]
PyInt(n) == [t |-> "int", n |-> n]
Str(s) == [t |-> "str", s |-> s]
Lit(s) == [t |-> "str", s |-> <<s>>]
List(s) == [t |-> "list", l |-> s]
Obj(f) == [t |-> "obj", o |-> f]
EmptyObj == [t |-> "obj", o |-> [key \in {} |-> None]]

Ok(x) == [ok |-> TRUE, v |-> x]
Exc(e) == [ok |-> FALSE, exc |-> e]

IsDict(x) == x.t = "obj"

\* d.get(k, default) on a dict d
dict_get(d, k, default) == IF k \in DOMAIN d.o THEN d.o[k] ELSE default

\* x.get(k, default): AttributeError unless x is a dict
py_get(x, k, default) ==
    IF IsDict(x) THEN Ok(dict_get(x, k, default)) ELSE Exc("AttributeError")

\* bool(x)
Truthy(x) ==
    CASE x.t = "null" -> FALSE
      [] x.t = "int" -> x.n /= 0
      [] x.t = "str" -> x.s /= <<>>
      [] x.t = "list" -> x.l /= <<>>
      [] x.t = "obj" -> DOMAIN x.o /= {}
      [] OTHER -> TRUE

Min(a, b) == IF a < b THEN a ELSE b

\* x[:n]
py_slice(x, n) ==
    CASE x.t = "str" -> Ok(Str(SubSeq(x.s, 1, Min(n, Len(x.s)))))
      [] x.t = "list" -> Ok(List(SubSeq(x.l, 1, Min(n, Len(x.l)))))
      [] OTHER -> Exc("TypeError")

RECURSIVE SetToSeq(_)
SetToSeq(S) ==
    IF S = {} THEN <<>>
    ELSE LET x == CHOOSE y \in S : TRUE IN <<x>> \o SetToSeq(S \ {x})

\* the sequence `for e in x` visits (a dict yields its keys, a str its characters)
py_iter(x) ==
    CASE x.t = "list" -> Ok(x.l)
      [] x.t = "str" -> Ok([k \in 1..Len(x.s) |-> Str(<<x.s[k]>>)])
      [] x.t = "obj" -> LET ks == SetToSeq(DOMAIN x.o)
                        IN Ok([k \in 1..Len(ks) |-> Lit(ks[k])])
      [] OTHER -> Exc("TypeError")

Digits == {"0", "1", "2", "3", "4", "5", "6", "7", "8", "9"}
DigitVal(c) ==
    CASE c = "0" -> 0 [] c = "1" -> 1 [] c = "2" -> 2 [] c = "3" -> 3
      [] c = "4" -> 4 [] c = "5" -> 5 [] c = "6" -> 6 [] c = "7" -> 7
      [] c = "8" -> 8 [] c = "9" -> 9

RECURSIVE ParseDigits(_)
ParseDigits(s) ==
    IF s = <<>> THEN 0
    ELSE 10 * ParseDigits(SubSeq(s, 1, Len(s) - 1)) + DigitVal(s[Len(s)])

\* int(x) left out: the value is passed through as it is
py_int_raw(x) == Ok(x)

\* int(x): an int is kept, a str of decimal digits is parsed, any other str is a
\* ValueError, None and containers are a TypeError
py_int(x) ==
    CASE x.t = "int" -> Ok(x)
      [] x.t = "str" -> IF x.s /= <<>> /\ \A k \in 1..Len(x.s) : x.s[k] \in Digits
                        THEN Ok(PyInt(ParseDigits(x.s)))
                        ELSE Exc("ValueError")
      [] OTHER -> Exc("TypeError")

\* json.dumps(d): the JSON text of d
json_dumps(d) == [t |-> "jsonstr", j |-> d]

\* response.json(): the document the body is the text of; a body that is no JSON
\* text raises JSONDecodeError, which is a ValueError
response_json(response) ==
    IF response.text.t = "jsonstr" THEN Ok(response.text.j)
    ELSE Exc("JSONDecodeError")

\* what a function ends with: a returned str, or an exception leaving it
Return(s) == [kind |-> "return", value |-> s]
Raise(e) == [kind |-> "raise", exc |-> e]

\* the first failing evaluation of a sequence of evaluations, 0 when none fails
FirstFailure(rs) ==
    IF \E k \in 1..Len(rs) : ~rs[k].ok
    THEN CHOOSE k \in 1..Len(rs) : ~rs[k].ok /\ \A j \in 1..(k - 1) : rs[j].ok
    ELSE 0

-----------------------------------------------------------------------------
(* Response normalizers *)

TacLen == 8

\* lines 28-32: the loop over User-Equipment-Info, from entry k on; the TAC of the
\* first entry tagged IMEI, None when the loop ends without one
RECURSIVE scan_equipment(_, _)
scan_equipment(es, k) ==
    IF k > Len(es) THEN Ok(None)
    ELSE IF ~IsDict(es[k]) THEN Exc("AttributeError")
    ELSE IF dict_get(es[k], "User-Equipment-Info-Type", None) = Lit("IMEI")
         THEN IF "User-Equipment-Info-Value" \notin DOMAIN es[k].o
              THEN Exc("KeyError")
              ELSE LET imei == es[k].o["User-Equipment-Info-Value"]
                   IN IF Truthy(imei) THEN py_slice(imei, TacLen) ELSE Ok(None)
         ELSE scan_equipment(es, k + 1)

\* lines 26-41: one iteration of the loop over sessions
session_entry(session) ==
    LET ps == py_get(session, "PS-Information", EmptyObj) IN
    IF ~ps.ok THEN ps
    ELSE LET ps_info == ps.v
             ue == py_get(ps_info, "User-Equipment-Info", List(<<>>)) IN
    IF ~ue.ok THEN ue
    ELSE LET it == py_iter(ue.v) IN
    IF ~it.ok THEN it
    ELSE LET tac == scan_equipment(it.v, 1) IN
    IF ~tac.ok THEN tac
    ELSE Ok(Obj([key \in {"startTime", "lastUpdateTime", "mcc-mnc", "apn",
                         "ratType", "deviceTAC"} |->
            CASE key = "startTime" -> dict_get(session, "startTime", None)
              [] key = "lastUpdateTime" -> dict_get(session, "lastUpdateTime", None)
              [] key = "mcc-mnc" -> dict_get(ps_info, "3GPP-GGSN-MCC-MNC", None)
              [] key = "apn" -> dict_get(ps_info, "Called-Station-Id", None)
              [] key = "ratType" -> dict_get(ps_info, "3GPP-RAT-Type", None)
              [] key = "deviceTAC" -> tac.v]))

\* the results of a loop body over the elements of a list, as one evaluation
MapAll(rs) ==
    LET f == FirstFailure(rs) IN
    IF f /= 0 THEN rs[f] ELSE Ok(List([k \in 1..Len(rs) |-> rs[k].v]))

helper_data_session(response) ==
    IF response.status_code = 404
    THEN Return(json_dumps(Obj("status" :> Lit("inactive")
                            @@ "detail" :> Lit("No active data session"))))
    ELSE LET parsed == response_json(response) IN
    IF ~parsed.ok THEN Raise(parsed.exc)
    ELSE LET data == parsed.v
             got == py_get(data, "sessions", List(<<>>)) IN
    IF ~got.ok THEN Raise(got.exc)
    ELSE LET it == py_iter(got.v) IN
    IF ~it.ok THEN Raise(it.exc)
    ELSE LET sessions == MapAll([k \in 1..Len(it.v) |-> session_entry(it.v[k])]) IN
    IF ~sessions.ok THEN Raise(sessions.exc)
    ELSE Return(json_dumps(Obj("status" :> Lit("active")
                            @@ "sessions" :> sessions.v)))

\* str(n) of a natural number, one character per piece
DigitChar(d) ==
    CASE d = 0 -> "0" [] d = 1 -> "1" [] d = 2 -> "2" [] d = 3 -> "3"
      [] d = 4 -> "4" [] d = 5 -> "5" [] d = 6 -> "6" [] d = 7 -> "7"
      [] d = 8 -> "8" [] d = 9 -> "9"

RECURSIVE Decimal(_)
Decimal(n) == IF n < 10 THEN <<DigitChar(n)>> ELSE Decimal(n \div 10) \o <<DigitChar(n % 10)>>

\* f"API returned {response.status_code}"
api_returned(status_code) == Str(<<"API returned ">> \o Decimal(status_code))

\* lines 49 and 105: the error object of the CDR and attach-history normalizers
error_object(response) ==
    Obj("error" :> api_returned(response.status_code)
     @@ "detail" :> response.text)

\* line 70: session.get("imei", "")[:8] if session.get("imei") else None
\* line 124: imei[:8] if imei else None
device_tac(imei) == IF Truthy(imei) THEN py_slice(imei, TacLen) ELSE Ok(None)

\* lines 74-78: the usage counters of one record
usage_counters(usage) ==
    IF ~IsDict(usage) THEN Exc("AttributeError")
    ELSE LET uplink == py_int(dict_get(usage, "uplink", PyInt(0)))
             downlink == py_int(dict_get(usage, "downlink", PyInt(0)))
             total == py_int(dict_get(usage, "total", PyInt(0))) IN
    IF ~uplink.ok THEN uplink
    ELSE IF ~downlink.ok THEN downlink
    ELSE IF ~total.ok THEN total
    ELSE Ok(Obj("uplink" :> uplink.v @@ "downlink" :> downlink.v @@ "total" :> total.v))

\* lines 58-79: one iteration of the loop over content
cdr_entry(entry) ==
    LET hd == py_get(entry, "header", EmptyObj) IN
    IF ~hd.ok THEN hd
    ELSE LET header == hd.v
             bd == py_get(dict_get(entry, "body", EmptyObj), "dataSession", EmptyObj) IN
    IF ~bd.ok THEN bd
    ELSE LET session == bd.v
             us == py_get(session, "usage", EmptyObj) IN
    IF ~us.ok THEN us
    ELSE IF ~IsDict(header) THEN Exc("AttributeError")
    ELSE LET tac == device_tac(dict_get(session, "imei", Str(<<>>))) IN
    IF ~tac.ok THEN tac
    ELSE LET request == dict_get(session, "request", EmptyObj) IN
    IF ~IsDict(request) THEN Exc("AttributeError")
    ELSE LET usage == usage_counters(us.v) IN
    IF ~usage.ok THEN usage
    ELSE Ok(Obj([key \in {"eventDate", "apn", "originCountry", "mcc", "mnc", "ratType",
                         "deviceTAC", "requestType", "requestDate", "serviceOutcome",
                         "usage"} |->
            CASE key = "eventDate" -> dict_get(header, "eventDate", None)
              [] key = "apn" -> dict_get(session, "apn", None)
              [] key = "originCountry" -> dict_get(session, "originCountry", None)
              [] key = "mcc" -> dict_get(session, "mcc", None)
              [] key = "mnc" -> dict_get(session, "mnc", None)
              [] key = "ratType" -> dict_get(session, "rat", None)
              [] key = "deviceTAC" -> tac.v
              [] key = "requestType" -> dict_get(request, "requestType", None)
              [] key = "requestDate" -> dict_get(request, "requestDate", None)
              [] key = "serviceOutcome" -> dict_get(session, "serviceOutcome", None)
              [] key = "usage" -> usage.v]))

\* the status test the specification words: any status outside 200-299
is_non_2xx(status_code) == status_code < 200 \/ status_code > 299

\* lines 48 and 104: the status test of the CDR and attach-history normalizers
is_error_status(status_code) == status_code /= 200

helper_cdr(response) ==
    IF is_error_status(response.status_code)
    THEN Return(json_dumps(error_object(response)))
    ELSE LET parsed == response_json(response) IN
    IF ~parsed.ok THEN Raise(parsed.exc)
    ELSE LET data == parsed.v IN
    IF ~IsDict(data) THEN Raise("AttributeError")
    ELSE IF dict_get(data, "totalElements", PyInt(0)) = PyInt(0)
    THEN Return(json_dumps(Obj("status" :> Lit("inactive")
                            @@ "detail" :> Lit("No CDR records found")
                            @@ "totalElements" :> PyInt(0))))
    ELSE LET it == py_iter(dict_get(data, "content", List(<<>>))) IN
    IF ~it.ok THEN Raise(it.exc)
    ELSE LET records == MapAll([k \in 1..Len(it.v) |-> cdr_entry(it.v[k])]) IN
    IF ~records.ok THEN Raise(records.exc)
    ELSE Return(json_dumps(Obj("status" :> Lit("active")
                            @@ "totalElements" :> dict_get(data, "totalElements", None)
                            @@ "records" :> records.v)))

\* lines 113-125
parse_event(event) ==
    LET hd == py_get(event, "header", EmptyObj) IN
    IF ~hd.ok THEN hd
    ELSE LET header == hd.v
             body == dict_get(event, "body", EmptyObj)
             im == py_get(body, "imei", Str(<<>>)) IN
    IF ~im.ok THEN im
    ELSE IF ~IsDict(header) THEN Exc("AttributeError")
    ELSE LET tac == device_tac(im.v) IN
    IF ~tac.ok THEN tac
    ELSE Ok(Obj([key \in {"eventDate", "eventType", "mcc", "mnc", "operatorName",
                         "country", "deviceTAC"} |->
            CASE key = "eventDate" -> dict_get(header, "eventDate", None)
              [] key = "eventType" -> dict_get(header, "eventType", None)
              [] key = "mcc" -> dict_get(body, "mcc", None)
              [] key = "mnc" -> dict_get(body, "mnc", None)
              [] key = "operatorName" -> dict_get(body, "operatorName", None)
              [] key = "country" -> dict_get(body, "iso3", None)
              [] key = "deviceTAC" -> tac.v]))

\* content[-1]
last_item(content) ==
    CASE content.t = "list" -> Ok(content.l[Len(content.l)])
      [] content.t = "str" -> Ok(Str(<<content.s[Len(content.s)]>>))
      [] content.t = "obj" -> Exc("KeyError")
      [] OTHER -> Exc("TypeError")

\* content[0] (content is truthy here)
first_item(content) ==
    CASE content.t = "list" -> Ok(content.l[1])
      [] content.t = "str" -> Ok(Str(<<content.s[1]>>))
      [] content.t = "obj" -> Exc("KeyError")
      [] OTHER -> Exc("TypeError")

helper_network_attach(response, last_only) ==
    IF is_error_status(response.status_code)
    THEN Return(json_dumps(error_object(response)))
    ELSE LET parsed == response_json(response) IN
    IF ~parsed.ok THEN Raise(parsed.exc)
    ELSE LET data == parsed.v IN
    IF ~IsDict(data) THEN Raise("AttributeError")
    ELSE LET content == dict_get(data, "content", List(<<>>)) IN
    IF ~Truthy(content)
    THEN Return(json_dumps(Obj("status" :> Lit("no_data")
                            @@ "detail" :> Lit("No location history found"))))
    ELSE IF last_only
    THEN LET first == first_item(content) IN
         IF ~first.ok THEN Raise(first.exc)
         ELSE LET last == parse_event(first.v) IN
         IF ~last.ok THEN Raise(last.exc)
         ELSE Return(json_dumps(Obj("status" :> Lit("ok") @@ "lastAttach" :> last.v)))
    ELSE LET it == py_iter(content) IN
    IF ~it.ok THEN Raise(it.exc)
    ELSE LET records == MapAll([k \in 1..Len(it.v) |-> parse_event(it.v[k])]) IN
    IF ~records.ok THEN Raise(records.exc)
    ELSE Return(json_dumps(Obj("status" :> Lit("ok")
                            @@ "totalElements" :>
                                 dict_get(data, "totalElements", PyInt(Len(records.v.l)))
                            @@ "records" :> records.v)))

-----------------------------------------------------------------------------
(* Token provider and SIM lookup *)

\* an exception with the message str(e) gives
RaiseMsg(e, m) == [kind |-> "raise", exc |-> e, msg |-> m]

\* the message of the JSON decoder for a body that is no JSON text
DecodeMessage == Lit("Expecting value: line 1 column 1 (char 0)")

\* str(e) of the exception an outcome carries
exc_str(o) == IF "msg" \in DOMAIN o THEN o.msg ELSE DecodeMessage

\* ValueError and its subclasses (JSONDecodeError is one)
IsValueError(e) == e \in {"ValueError", "JSONDecodeError"}

\* a reply of the network to one request: no response at all (connection error,
\* timeout), or an HTTP response
NetError == [net |-> "error"]
Response(status_code, text) == [net |-> "ok", status_code |-> status_code, text |-> text]

\* response.raise_for_status() raises HTTPError
raises_for_status(status_code) == status_code >= 400 /\ status_code < 600

\* x[key] for a str key
py_item(x, key) ==
    CASE x.t = "obj" -> IF key \in DOMAIN x.o THEN Ok(x.o[key]) ELSE Exc("KeyError")
      [] OTHER -> Exc("TypeError")

\* auth.gen_token, given the reply to its POST
gen_token(reply) ==
    IF reply.net = "error" \/ raises_for_status(reply.status_code)
    THEN Raise("RuntimeError")
    ELSE LET parsed == response_json(reply) IN
    IF ~parsed.ok THEN Raise(parsed.exc)
    ELSE LET tok == py_item(parsed.v, "access_token") IN
    IF ~tok.ok THEN Raise(tok.exc) ELSE Return(tok.v)

\* f"No SIM found for IMSI {imsi}"
no_sim_message(subject) == Str(<<"No SIM found for IMSI ">> \o subject.s)

\* get_sim_serial, given the reply to its GET
get_sim_serial(reply, subject) ==
    IF reply.net = "error" THEN Raise("ConnectionError")
    ELSE IF raises_for_status(reply.status_code) THEN Raise("HTTPError")
    ELSE LET parsed == response_json(reply) IN
    IF ~parsed.ok THEN Raise(parsed.exc)
    ELSE LET got == py_get(parsed.v, "sims", List(<<>>)) IN
    IF ~got.ok THEN Raise(got.exc)
    ELSE LET sims == got.v IN
    IF ~Truthy(sims) THEN RaiseMsg("ValueError", no_sim_message(subject))
    ELSE LET first == first_item(sims) IN
    IF ~first.ok THEN Raise(first.exc)
    ELSE LET serial == py_item(first.v, "simSerial") IN
    IF ~serial.ok THEN Raise(serial.exc) ELSE Return(serial.v)

\* no except clause: whatever get_network_attach's body ends with leaves it
except_nothing(o) == o

\* lines 213-214: except ValueError as e: return json.dumps({"error": str(e)})
except_ValueError(o) ==
    IF o.kind = "raise" /\ IsValueError(o.exc)
    THEN Return(json_dumps(Obj("error" :> exc_str(o))))
    ELSE o

\* headers={"Authorization": f"Bearer {token}"}
authorization(tok) == Str(<<"Bearer ">> \o tok.s)

-----------------------------------------------------------------------------
(* The inputs of the model: subject identifiers and upstream replies *)

MaxEquipment == 2
MaxSessions == 2
MaxContent == 2
NumInvocations == 2

\* all sequences over S of length at most n
SeqsUpTo(S, n) == UNION {[1..k -> S] : k \in 0..n}

\* the sequences of length at most n that hold ref everywhere but at one place,
\* which holds any element of S
VariedSeqs(S, ref, n) ==
    {<<>>} \cup {[k \in 1..m |-> IF k = p THEN x ELSE ref] :
                   m \in 1..n, p \in 1..n, x \in S}

\* a dict from the keys that are present: pairs <<key, value>>, a value of Absent
\* meaning the key is not in the dict
Absent == [t |-> "absent"]
Present(pairs) == {k \in 1..Len(pairs) : pairs[k][2] /= Absent}
MkObj(pairs) ==
    Obj([key \in {pairs[k][1] : k \in Present(pairs)} |->
           pairs[CHOOSE k \in Present(pairs) : pairs[k][1] = key][2]])

Subjects == {Lit("001010123456789"), Lit("208090000000001")}

ImeiDigits ==
    <<"3", "5", "6", "9", "3", "8", "0", "3", "5", "6", "4", "3", "8", "0", "9">>
ImeiLengths == {0, 3, 8, 15}
ImeiStrings == {Str(SubSeq(ImeiDigits, 1, n)) : n \in ImeiLengths}
\* what a payload may carry in an IMEI field: nothing, null, or a string
ImeiFields == {Absent, None} \cup ImeiStrings

NonJsonText == Lit("<html>Service Unavailable</html>")
JsonErrorText == json_dumps(Obj("message" :> Lit("upstream failure")))
ErrorStatuses == {204, 401, 404, 500}
ErrorResponses ==
    {Response(c, b) : c \in ErrorStatuses, b \in {NonJsonText, JsonErrorText}}

\* data-session payloads
Equipments ==
    {MkObj(<<<<"User-Equipment-Info-Type", Lit("IMEI")>>,
             <<"User-Equipment-Info-Value", v>>>>) : v \in ImeiFields}
    \cup {MkObj(<<<<"User-Equipment-Info-Type", Lit("MAC")>>,
                  <<"User-Equipment-Info-Value", Str(SubSeq(ImeiDigits, 4, 15))>>>>)}
PsInformations ==
    {None, EmptyObj}
    \cup {MkObj(<<<<"3GPP-GGSN-MCC-MNC", Lit("20801")>>,
                  <<"Called-Station-Id", Lit("internet")>>,
                  <<"3GPP-RAT-Type", Lit("6")>>,
                  <<"User-Equipment-Info", List(es)>>>>) :
            es \in SeqsUpTo(Equipments, MaxEquipment)}
Sessions ==
    {None, EmptyObj}
    \cup {MkObj(<<<<"startTime", Lit("2024-05-01T10:00:00Z")>>,
                  <<"lastUpdateTime", Lit("2024-05-01T10:05:00Z")>>,
                  <<"PS-Information", ps>>>>) : ps \in PsInformations}
RefSession ==
    MkObj(<<<<"startTime", Lit("2024-04-30T08:00:00Z")>>,
            <<"PS-Information", MkObj(<<<<"Called-Station-Id", Lit("iot")>>>>)>>>>)
DataSessionDocs ==
    {None, EmptyObj, Obj("sessions" :> None)}
    \cup {Obj("sessions" :> List(ss)) : ss \in VariedSeqs(Sessions, RefSession, MaxSessions)}
DataSessionResponses ==
    ErrorResponses
    \cup {Response(200, NonJsonText)}
    \cup {Response(200, json_dumps(d)) : d \in DataSessionDocs}

\* CDR payloads
CounterFields == {Absent, PyInt(7), Str(<<"1", "0", "4", "8", "5", "7", "6">>)}
Usages ==
    {Absent}
    \cup {MkObj(<<<<"uplink", u>>, <<"downlink", d>>, <<"total", w>>>>) :
            u \in CounterFields, d \in CounterFields, w \in CounterFields}
    \cup {Obj("total" :> None), Obj("uplink" :> Lit("n/a"))}
CdrEntry(imei, usage) ==
    MkObj(<<<<"header", Obj("eventDate" :> Lit("2024-05-01T09:00:00Z"))>>,
            <<"body", Obj("dataSession" :>
                MkObj(<<<<"apn", Lit("internet")>>, <<"originCountry", Lit("FR")>>,
                        <<"mcc", Lit("208")>>, <<"mnc", Lit("01")>>, <<"rat", Lit("6")>>,
                        <<"imei", imei>>,
                        <<"request", Obj("requestType" :> Lit("UPDATE")
                                      @@ "requestDate" :> Lit("2024-05-01T09:00:01Z"))>>,
                        <<"serviceOutcome", Lit("SUCCESS")>>,
                        <<"usage", usage>>>>))>>>>)
CdrEntries ==
    {None, EmptyObj}
    \cup {CdrEntry(v, Obj("total" :> PyInt(3))) : v \in ImeiFields}
    \cup {CdrEntry(Str(ImeiDigits), u) : u \in Usages}
RefCdrEntry ==
    Obj("header" :> Obj("eventDate" :> Lit("2024-04-30T23:00:00Z"))
     @@ "body" :> Obj("dataSession" :> Obj("apn" :> Lit("iot"))))
TotalElementsFields(n) == {Absent, None, PyInt(0), PyInt(n), PyInt(n + 1)}
CdrDocs ==
    {None, EmptyObj, Obj("totalElements" :> PyInt(1) @@ "content" :> None)}
    \cup {MkObj(<<<<"totalElements", te>>, <<"content", List(es)>>>>) :
            es \in VariedSeqs(CdrEntries, RefCdrEntry, MaxContent),
            te \in UNION {TotalElementsFields(n) : n \in 0..MaxContent}}
CdrResponses ==
    ErrorResponses
    \cup {Response(200, NonJsonText)}
    \cup {Response(200, json_dumps(d)) : d \in CdrDocs}

\* attach-history payloads
AttachEvent(date, imei) ==
    MkObj(<<<<"header", Obj("eventDate" :> date @@ "eventType" :> Lit("GPRS_ATTACH"))>>,
            <<"body", MkObj(<<<<"mcc", Lit("208")>>, <<"mnc", Lit("01")>>,
                              <<"operatorName", Lit("Orange")>>, <<"iso3", Lit("FRA")>>,
                              <<"imei", imei>>>>)>>>>)
EventDates == {Lit("2024-05-03T00:00:00Z"), Lit("2024-05-01T00:00:00Z")}
AttachEvents ==
    {None, EmptyObj}
    \cup {AttachEvent(CHOOSE d \in EventDates : TRUE, v) : v \in ImeiFields}
    \cup {AttachEvent(d, Str(ImeiDigits)) : d \in EventDates}
AttachDocs ==
    {None, EmptyObj, Obj("content" :> None)}
    \cup {MkObj(<<<<"totalElements", te>>, <<"content", List(es)>>>>) :
            es \in SeqsUpTo(AttachEvents, MaxContent),
            te \in {Absent, PyInt(MaxContent + 1)}}
AttachResponses ==
    ErrorResponses
    \cup {Response(200, NonJsonText)}
    \cup {Response(200, json_dumps(d)) : d \in AttachDocs}

\* SIM-search payloads
SimSerials == {Lit("8988247000100000001"), Lit("8988247000100000002")}
Sims == {EmptyObj} \cup {Obj("simSerial" :> x) : x \in SimSerials}
SimDocs ==
    {None, EmptyObj, Obj("sims" :> None)}
    \cup {Obj("sims" :> List(ss)) : ss \in SeqsUpTo(Sims, 2)}
SimSearchReplies ==
    {NetError, Response(500, NonJsonText), Response(404, JsonErrorText),
     Response(200, NonJsonText)}
    \cup {Response(200, json_dumps(d)) : d \in SimDocs}

\* token-endpoint replies; tok is the token the server issues when it issues one
TokenReplies(tok) ==
    {NetError, Response(401, JsonErrorText), Response(500, NonJsonText),
     Response(200, NonJsonText), Response(200, json_dumps(EmptyObj)),
     Response(200, json_dumps(List(<<>>))),
     Response(200, json_dumps(Obj("access_token" :> tok @@ "expires_in" :> PyInt(3600))))}

\* the n-th token the token endpoint issues
IssuedToken(n) == Str(<<"token-">> \o Decimal(n))

-----------------------------------------------------------------------------
(* Tool handlers: one invocation is a sequence of blocking external calls.  Each  *)
(* call is two steps, the request going out and the reply coming back with the   *)
(* code that runs up to the next call.                                           *)

VARIABLES
    pc,          \* pc[i]: where invocation i stands
    tool,        \* tool[i]: the tool the host invoked
    imsi,        \* imsi[i], last_only[i]: its arguments
    last_only,
    token,       \* token[i]: the handler's local variable token
    sim_serial,  \* sim_serial[i]: the handler's local variable sim_serial
    outcome,     \* outcome[i]: what the handler ended with
    sent,        \* sent[i]: the requests invocation i sent, in order
    received,    \* received[i]: the replies invocation i got, in order
    issued       \* how many tokens the token endpoint has issued

vars == <<pc, tool, imsi, last_only, token, sim_serial, outcome, sent, received, issued>>

Tools == {"get_data_session", "get_cdr", "get_network_attach"}
Running == [kind |-> "running"]
Invocations == 1..NumInvocations

InitOf(P) ==
    /\ pc = [i \in P |-> "idle"]
    /\ tool = [i \in P |-> "none"]
    /\ imsi = [i \in P |-> None]
    /\ last_only = [i \in P |-> FALSE]
    /\ token = [i \in P |-> None]
    /\ sim_serial = [i \in P |-> None]
    /\ outcome = [i \in P |-> Running]
    /\ sent = [i \in P |-> <<>>]
    /\ received = [i \in P |-> <<>>]
    /\ issued = 0

\* a token cached at module level: the token issued last, to whichever invocation
bearer_cached(i) == IssuedToken(issued)

\* the bearer token invocation i puts in the Authorization header of a GET
bearer(i) == token[i]

\* a retry: the handler goes back to the call that raised
after_raise_retry(step) == step

\* where a handler goes when a call raised: the exception leaves the handler (or is
\* caught by the except clause, which returns); the call is not repeated
after_raise(step) == "done"

Request(i, call, param) ==
    [from |-> i, call |-> call, param |-> param,
     auth |-> IF call = "token" THEN None ELSE authorization(bearer(i))]

Send(i, call, param, next) ==
    /\ sent' = [sent EXCEPT ![i] = Append(@, Request(i, call, param))]
    /\ pc' = [pc EXCEPT ![i] = next]
    /\ UNCHANGED <<tool, imsi, last_only, token, sim_serial, outcome, received, issued>>

Receive(i, call, reply) ==
    received' = [received EXCEPT ![i] = Append(@, [call |-> call, reply |-> reply])]

\* the handler ends with outcome o
Finish(i, o, step) ==
    /\ outcome' = [outcome EXCEPT ![i] = o]
    /\ pc' = [pc EXCEPT ![i] = IF o.kind = "raise" THEN after_raise(step) ELSE "done"]

\* the host invokes a tool
Invoke(i, subjects) ==
    /\ pc[i] = "idle"
    /\ \E t \in Tools, s \in subjects, lo \in BOOLEAN :
        /\ lo => t = "get_network_attach"
        /\ tool' = [tool EXCEPT ![i] = t]
        /\ imsi' = [imsi EXCEPT ![i] = s]
        /\ last_only' = [last_only EXCEPT ![i] = lo]
    /\ pc' = [pc EXCEPT ![i] = "gen_token"]
    /\ UNCHANGED <<token, sim_serial, outcome, sent, received, issued>>

\* auth.gen_token: the POST
gen_token_post(i) ==
    /\ pc[i] = "gen_token"
    /\ Send(i, "token", None, "await_token")

\* the step of each tool after token = auth.gen_token()
after_token(t) ==
    CASE t = "get_data_session" -> "get_data_session"
      [] t = "get_cdr" -> "get_cdr"
      [] t = "get_network_attach" -> "get_sim_serial"

\* auth.gen_token: the reply; get_network_attach calls it inside its try
gen_token_reply(i, replies) ==
    /\ pc[i] = "await_token"
    /\ \E reply \in replies :
        LET r == gen_token(reply) IN
        /\ Receive(i, "token", reply)
        /\ issued' = IF r.kind = "return" THEN issued + 1 ELSE issued
        /\ IF r.kind = "return"
           THEN /\ token' = [token EXCEPT ![i] = r.value]
                /\ pc' = [pc EXCEPT ![i] = after_token(tool[i])]
                /\ UNCHANGED outcome
           ELSE /\ Finish(i, IF tool[i] = "get_network_attach"
                             THEN except_ValueError(r) ELSE r, "gen_token")
                /\ UNCHANGED token
    /\ UNCHANGED <<tool, imsi, last_only, sim_serial, sent>>

get_data_session_get(i) ==
    /\ pc[i] = "get_data_session"
    /\ Send(i, "data_session", imsi[i], "await_data_session")

get_data_session_reply(i, replies) ==
    /\ pc[i] = "await_data_session"
    /\ \E reply \in replies :
        /\ Receive(i, "data_session", reply)
        /\ Finish(i, IF reply.net = "error" THEN Raise("ConnectionError")
                     ELSE helper_data_session(reply), "get_data_session")
    /\ UNCHANGED <<tool, imsi, last_only, token, sim_serial, sent, issued>>

get_cdr_get(i) ==
    /\ pc[i] = "get_cdr"
    /\ Send(i, "cdr", imsi[i], "await_cdr")

get_cdr_reply(i, replies) ==
    /\ pc[i] = "await_cdr"
    /\ \E reply \in replies :
        /\ Receive(i, "cdr", reply)
        /\ Finish(i, IF reply.net = "error" THEN Raise("ConnectionError")
                     ELSE helper_cdr(reply), "get_cdr")
    /\ UNCHANGED <<tool, imsi, last_only, token, sim_serial, sent, issued>>

get_sim_serial_get(i) ==
    /\ pc[i] = "get_sim_serial"
    /\ Send(i, "sim_search", imsi[i], "await_sim_serial")

get_sim_serial_reply(i, replies) ==
    /\ pc[i] = "await_sim_serial"
    /\ \E reply \in replies :
        LET r == get_sim_serial(reply, imsi[i]) IN
        /\ Receive(i, "sim_search", reply)
        /\ IF r.kind = "return"
           THEN /\ sim_serial' = [sim_serial EXCEPT ![i] = r.value]
                /\ pc' = [pc EXCEPT ![i] = "get_network_attach"]
                /\ UNCHANGED outcome
           ELSE /\ Finish(i, except_ValueError(r), "get_sim_serial")
                /\ UNCHANGED sim_serial
    /\ UNCHANGED <<tool, imsi, last_only, token, sent, issued>>

get_network_attach_get(i) ==
    /\ pc[i] = "get_network_attach"
    /\ Send(i, "attach", sim_serial[i], "await_network_attach")

get_network_attach_reply(i, replies) ==
    /\ pc[i] = "await_network_attach"
    /\ \E reply \in replies :
        /\ Receive(i, "attach", reply)
        /\ Finish(i, IF reply.net = "error" THEN Raise("ConnectionError")
                     ELSE except_ValueError(helper_network_attach(reply, last_only[i])),
                  "get_network_attach")
    /\ UNCHANGED <<tool, imsi, last_only, token, sim_serial, sent, issued>>

\* one invocation, against every reply of the model
Init == InitOf({1})

Next ==
    \/ Invoke(1, Subjects)
    \/ gen_token_post(1)
    \/ gen_token_reply(1, TokenReplies(IssuedToken(issued + 1)))
    \/ get_data_session_get(1)
    \/ get_data_session_reply(1, {NetError} \cup DataSessionResponses)
    \/ get_cdr_get(1)
    \/ get_cdr_reply(1, {NetError} \cup CdrResponses)
    \/ get_sim_serial_get(1)
    \/ get_sim_serial_reply(1, SimSearchReplies)
    \/ get_network_attach_get(1)
    \/ get_network_attach_reply(1, {NetError} \cup AttachResponses)

Spec == Init /\ [][Next]_vars

\* concurrent invocations, each against a few replies of every kind
ConcSubjects == {Lit("001010123456789")}
ConcTokenReplies(tok) ==
    {Response(401, JsonErrorText), Response(200, json_dumps(Obj("access_token" :> tok)))}
ConcDataSessionReplies ==
    {Response(404, NonJsonText),
     Response(200, json_dumps(Obj("sessions" :> List(<<RefSession>>))))}
ConcCdrReplies ==
    {Response(500, NonJsonText),
     Response(200, json_dumps(Obj("totalElements" :> PyInt(1)
                               @@ "content" :> List(<<RefCdrEntry>>))))}
ConcSimSearchReplies ==
    {Response(200, json_dumps(Obj("sims" :> List(<<>>))))}
    \cup {Response(200, json_dumps(Obj("sims" :> List(<<Obj("simSerial" :> x)>>)))) :
            x \in SimSerials}
ConcAttachReplies ==
    {Response(200, json_dumps(Obj("content" :> List(<<>>))))}
    \cup {Response(200, json_dumps(Obj("content" :>
                List(<<AttachEvent(d, Str(ImeiDigits))>>)))) : d \in EventDates}

InitConc == InitOf(Invocations)

NextConc ==
    \E i \in Invocations :
        \/ Invoke(i, ConcSubjects)
        \/ gen_token_post(i)
        \/ gen_token_reply(i, ConcTokenReplies(IssuedToken(issued + 1)))
        \/ get_data_session_get(i)
        \/ get_data_session_reply(i, ConcDataSessionReplies)
        \/ get_cdr_get(i)
        \/ get_cdr_reply(i, ConcCdrReplies)
        \/ get_sim_serial_get(i)
        \/ get_sim_serial_reply(i, ConcSimSearchReplies)
        \/ get_network_attach_get(i)
        \/ get_network_attach_reply(i, ConcAttachReplies)

SpecConc == InitConc /\ [][NextConc]_vars

-----------------------------------------------------------------------------
(* Vocabulary of the properties *)

Invoked == DOMAIN pc
Done(i) == pc[i] = "done"
Returned(i) == outcome[i].kind = "return"
Raised(i) == outcome[i].kind = "raise"

\* how many requests of a kind invocation i has sent
Count(i, call) == Cardinality({k \in 1..Len(sent[i]) : sent[i][k].call = call})

\* the replies invocation i got to its requests of a kind
Replies(i, call) ==
    {received[i][k].reply : k \in {n \in 1..Len(received[i]) : received[i][n].call = call}}

\* the HTTP responses among them
Responses(i, call) == {r \in Replies(i, call) : r.net = "ok"}

IsJsonText(s) == s.t = "jsonstr"
\* the document a returned JSON string denotes
Doc(i) == outcome[i].value.j
ReturnedObject(i) == Returned(i) /\ IsJsonText(outcome[i].value) /\ IsDict(Doc(i))

\* the field of an upstream object, Absent when the key is missing
Field(d, key) == IF key \in DOMAIN d.o THEN d.o[key] ELSE Absent
\* an optional nested object: the object, or an empty one when the key is missing
Sub(d, key) == IF key \in DOMAIN d.o THEN d.o[key] ELSE EmptyObj
OptObj(d, key) == key \in DOMAIN d.o => IsDict(d.o[key])

\* the payload of a response that is a JSON object
JsonObject(r) == IsJsonText(r.text) /\ IsDict(r.text.j)
Payload(r) == r.text.j

\* the device TAC the specification derives from an IMEI field
LongImei(f) == f.t = "str" /\ Len(f.s) >= 8
NoImei(f) == f \in {Absent, None, Str(<<>>)}
Prefix8(f) == Str(<<f.s[1], f.s[2], f.s[3], f.s[4], f.s[5], f.s[6], f.s[7], f.s[8]>>)
TacAsSpecified(tac, f) ==
    /\ LongImei(f) => tac = Prefix8(f)
    /\ NoImei(f) => tac = None


-----------------------------------------------------------------------------
(* C1 *)

IsJsonReturn(o) == o.kind = "return" /\ IsJsonText(o.value)

\* C1: whatever HTTP response a normalizer is given (any status, any body), it
\* ends by returning a JSON string and never by raising.  get_data_session and
\* get_cdr return their normalizer's result as it is; get_network_attach wraps
\* its normalizer in an except clause, so the normalizer is applied to the
\* response the handler received.
C1_NormalizersNeverRaise ==
    \A i \in Invoked :
        /\ \A r \in Responses(i, "data_session") : Done(i) => IsJsonReturn(outcome[i])
        /\ \A r \in Responses(i, "cdr") : Done(i) => IsJsonReturn(outcome[i])
        /\ \A r \in Responses(i, "attach") :
               IsJsonReturn(helper_network_attach(r, last_only[i]))

-----------------------------------------------------------------------------
(* C2 *)

\* token acquisition failed: gen_token raised, the handler has no token
TokenFailed(i) == Replies(i, "token") /= {} /\ token[i] = None

\* the exception classes that decoding a body and reading the decoded document raise
ParseErrors == {"JSONDecodeError", "ValueError", "AttributeError", "KeyError", "TypeError"}

\* C2: when every request of an invocation got an HTTP response, an exception
\* leaves the handler only if token acquisition failed or a response body could
\* not be parsed; a non-2xx status of any GET endpoint and a SIM lookup with zero
\* matches end with a returned JSON string.
C2_OnlyTokenAndParseFailuresPropagate ==
    \A i \in Invoked :
        (/\ Done(i)
         /\ \A k \in 1..Len(received[i]) : received[i][k].reply.net = "ok")
        => \/ IsJsonReturn(outcome[i])
           \/ Raised(i) /\ TokenFailed(i)
           \/ Raised(i) /\ outcome[i].exc \in ParseErrors

-----------------------------------------------------------------------------
(* C3 *)

Calls == {"token", "sim_search", "data_session", "cdr", "attach"}

\* the external calls a tool needs when nothing fails
Needed(t) ==
    CASE t = "get_data_session" -> {"token", "data_session"}
      [] t = "get_cdr" -> {"token", "cdr"}
      [] t = "get_network_attach" -> {"token", "sim_search", "attach"}
      [] OTHER -> {}

\* the invocation ended with a result that reports no error
FullySuccessful(i) ==
    Done(i) /\ ReturnedObject(i) /\ "error" \notin DOMAIN Doc(i).o

\* C3: within one invocation every external call is issued at most once, whatever
\* the replies (no call is repeated after a failure), and an invocation that ends
\* successfully has issued each call its tool needs exactly once and no other.
C3_EachCallAtMostOnce ==
    \A i \in Invoked :
        /\ \A c \in Calls : Count(i, c) <= 1
        /\ FullySuccessful(i) =>
               \A c \in Calls : Count(i, c) = (IF c \in Needed(tool[i]) THEN 1 ELSE 0)

\* an invocation of the attach-history tool ended after a failed call
C3_Witness ==
    \E i \in Invoked :
        /\ Done(i) /\ Raised(i)
        /\ tool[i] = "get_network_attach"
        /\ Count(i, "token") = 1 /\ Count(i, "sim_search") = 1 /\ Count(i, "attach") = 1

-----------------------------------------------------------------------------
(* C4 *)

\* a SIM-search response that is a success and holds no SIM
ZeroMatches(r) ==
    /\ r.net = "ok" /\ r.status_code = 200 /\ JsonObject(r)
    /\ Field(Payload(r), "sims") \in {Absent, List(<<>>)}

\* C4: when the token was acquired and the SIM search returns zero matches,
\* get_network_attach returns {"error": "No SIM found for IMSI <identifier>"} and
\* sends no attach-history request.
C4_NoSimFoundIsReturned ==
    \A i \in Invoked :
        (tool[i] = "get_network_attach" /\ \E r \in Replies(i, "sim_search") : ZeroMatches(r))
        => /\ Done(i)
           /\ outcome[i] = Return(json_dumps(Obj("error" :>
                  Str(<<"No SIM found for IMSI ">> \o imsi[i].s))))
           /\ Count(i, "attach") = 0

C4_Witness ==
    \E i \in Invoked :
        /\ tool[i] = "get_network_attach" /\ token[i] /= None /\ Done(i)
        /\ \E r \in Replies(i, "sim_search") :
               ZeroMatches(r) /\ Field(Payload(r), "sims") = List(<<>>)


-----------------------------------------------------------------------------
(* C5 *)

\* a content entry of the attach history: an object whose header and body, when
\* present, are objects and whose IMEI, when present, is null or a string
EventObject(e) ==
    /\ IsDict(e) /\ OptObj(e, "header") /\ OptObj(e, "body")
    /\ Field(Sub(e, "body"), "imei").t \in {"absent", "null", "str"}

\* a successful attach-history response with a non-empty content list
NonEmptyContent(r) ==
    /\ r.status_code = 200 /\ JsonObject(r)
    /\ Field(Payload(r), "content").t = "list"
    /\ Field(Payload(r), "content").l /= <<>>

OrNone(f) == IF f = Absent THEN None ELSE f

\* C5: for a successful attach-history response with a non-empty content list of
\* event objects, last_only=true gives lastAttach, the normalization of content[0]
\* (so lastAttach.eventDate is the first entry's date), and no records key;
\* last_only=false gives records, the normalizations of all entries in the
\* upstream order.
C5_LastAttachAndRecords ==
    \A i \in Invoked : \A r \in Responses(i, "attach") :
        (Done(i) /\ NonEmptyContent(r)) =>
        LET content == Payload(r).o["content"].l IN
        /\ (last_only[i] /\ EventObject(content[1])) =>
               /\ ReturnedObject(i)
               /\ DOMAIN Doc(i).o = {"status", "lastAttach"}
               /\ Doc(i).o["lastAttach"] = parse_event(content[1]).v
               /\ Doc(i).o["lastAttach"].o["eventDate"] =
                      OrNone(Field(Sub(content[1], "header"), "eventDate"))
        /\ (~last_only[i] /\ \A k \in 1..Len(content) : EventObject(content[k])) =>
               /\ ReturnedObject(i)
               /\ "records" \in DOMAIN Doc(i).o /\ "lastAttach" \notin DOMAIN Doc(i).o
               /\ Doc(i).o["records"].t = "list"
               /\ Len(Doc(i).o["records"].l) = Len(content)
               /\ \A k \in 1..Len(content) :
                      /\ Doc(i).o["records"].l[k] = parse_event(content[k]).v
                      /\ Doc(i).o["records"].l[k].o["eventDate"] =
                             OrNone(Field(Sub(content[k], "header"), "eventDate"))

\* last_only=true on a history of two events with different dates
C5_Witness ==
    \E i \in Invoked : \E r \in Responses(i, "attach") :
        /\ Done(i) /\ last_only[i] /\ NonEmptyContent(r)
        /\ LET content == Payload(r).o["content"].l IN
           /\ Len(content) = 2
           /\ EventObject(content[1]) /\ EventObject(content[2])
           /\ parse_event(content[1]) /= parse_event(content[2])
           /\ Field(Sub(content[1], "header"), "eventDate") /= Absent
        /\ ReturnedObject(i) /\ "lastAttach" \in DOMAIN Doc(i).o

-----------------------------------------------------------------------------
(* C6 *)

\* a session entry whose nested parts have the upstream shape
SessionObject(s) ==
    /\ IsDict(s) /\ OptObj(s, "PS-Information")
    /\ Field(Sub(s, "PS-Information"), "User-Equipment-Info").t \in {"absent", "list"}
    /\ LET ue == Field(Sub(s, "PS-Information"), "User-Equipment-Info") IN
       ue.t = "list" => \A n \in 1..Len(ue.l) : IsDict(ue.l[n])

\* the equipment-info entries of a session, and those tagged IMEI
EquipmentOf(s) ==
    LET ue == Field(Sub(s, "PS-Information"), "User-Equipment-Info") IN
    IF ue.t = "list" THEN ue.l ELSE <<>>
Tagged(es) == {n \in 1..Len(es) : Field(es[n], "User-Equipment-Info-Type") = Lit("IMEI")}
FirstTagged(es) == CHOOSE n \in Tagged(es) : \A m \in Tagged(es) : n <= m

\* a CDR entry whose nested parts have the upstream shape
CdrEntryObject(e) ==
    /\ IsDict(e) /\ OptObj(e, "header") /\ OptObj(e, "body")
    /\ OptObj(Sub(e, "body"), "dataSession")
    /\ LET ds == Sub(Sub(e, "body"), "dataSession") IN
       /\ OptObj(ds, "usage") /\ OptObj(ds, "request")
       /\ Field(ds, "imei").t \in {"absent", "null", "str"}

ListField(d, key) == IF Field(d, key).t = "list" THEN Field(d, key).l ELSE <<>>

\* C6: in all three normalizers deviceTAC is the first 8 characters of an IMEI
\* string of length >= 8 and null for an empty or missing IMEI, an IMEI-tagged
\* equipment entry without a value included; the data-session normalizer uses the
\* first equipment entry tagged IMEI.
C6_DeviceTacIsImeiPrefix ==
    \A i \in Invoked :
        /\ \A r \in Responses(i, "data_session") :
               (/\ Done(i) /\ r.status_code /= 404 /\ JsonObject(r)
                /\ Field(Payload(r), "sessions").t = "list"
                /\ \A k \in 1..Len(Payload(r).o["sessions"].l) :
                       SessionObject(Payload(r).o["sessions"].l[k]))
               => \A k \in 1..Len(Payload(r).o["sessions"].l) :
                      LET es == EquipmentOf(Payload(r).o["sessions"].l[k]) IN
                      Tagged(es) /= {} =>
                          LET f == Field(es[FirstTagged(es)], "User-Equipment-Info-Value") IN
                          (LongImei(f) \/ NoImei(f)) =>
                              /\ ReturnedObject(i)
                              /\ TacAsSpecified(Doc(i).o["sessions"].l[k].o["deviceTAC"], f)
        /\ \A r \in Responses(i, "cdr") :
               (/\ Done(i) /\ r.status_code = 200 /\ JsonObject(r)
                /\ Field(Payload(r), "totalElements") /= PyInt(0)
                /\ Field(Payload(r), "totalElements") /= Absent
                /\ \A k \in 1..Len(ListField(Payload(r), "content")) :
                       /\ CdrEntryObject(ListField(Payload(r), "content")[k])
                       /\ usage_counters(Sub(Sub(Sub(ListField(Payload(r), "content")[k],
                                                     "body"), "dataSession"), "usage")).ok)
               => \A k \in 1..Len(ListField(Payload(r), "content")) :
                      /\ ReturnedObject(i)
                      /\ TacAsSpecified(
                             Doc(i).o["records"].l[k].o["deviceTAC"],
                             Field(Sub(Sub(ListField(Payload(r), "content")[k], "body"),
                                       "dataSession"), "imei"))
        /\ \A r \in Responses(i, "attach") :
               (/\ Done(i) /\ NonEmptyContent(r) /\ ~last_only[i]
                /\ \A k \in 1..Len(Payload(r).o["content"].l) :
                       EventObject(Payload(r).o["content"].l[k]))
               => \A k \in 1..Len(Payload(r).o["content"].l) :
                      /\ ReturnedObject(i)
                      /\ TacAsSpecified(
                             Doc(i).o["records"].l[k].o["deviceTAC"],
                             Field(Sub(Payload(r).o["content"].l[k], "body"), "imei"))

-----------------------------------------------------------------------------
(* C7 *)

\* C7: get_data_session returns {"status": "inactive", "detail": "No active data
\* session"} when the endpoint answers 404, and an object with status active and
\* a sessions key for every other answer of the endpoint.
C7_InactiveOn404ElseActive ==
    \A i \in Invoked : \A r \in Responses(i, "data_session") :
        Done(i) =>
            IF r.status_code = 404
            THEN outcome[i] = Return(json_dumps(Obj("status" :> Lit("inactive")
                                  @@ "detail" :> Lit("No active data session"))))
            ELSE /\ ReturnedObject(i)
                 /\ "sessions" \in DOMAIN Doc(i).o
                 /\ Field(Doc(i), "status") = Lit("active")


-----------------------------------------------------------------------------
(* C8 *)

\* the text of the status codes the model's endpoints answer with
StatusText(c) ==
    CASE c = 200 -> <<"2", "0", "0">> [] c = 204 -> <<"2", "0", "4">>
      [] c = 401 -> <<"4", "0", "1">> [] c = 404 -> <<"4", "0", "4">>
      [] c = 500 -> <<"5", "0", "0">>

\* invocation i returned the error object for response r
ReturnedErrorObject(i, r) ==
    outcome[i] = Return(json_dumps(Obj(
        "error" :> Str(<<"API returned ">> \o StatusText(r.status_code))
        @@ "detail" :> r.text)))

Is2xx(c) == c >= 200 /\ c <= 299

\* C8 as claimed: the CDR and the attach-history normalizers give the error
\* object {error, detail: body text} for every non-2xx status and only for those.
C8_ErrorObjectIffNon2xx ==
    \A i \in Invoked : \A r \in Responses(i, "cdr") \cup Responses(i, "attach") :
        Done(i) => (ReturnedErrorObject(i, r) <=> ~Is2xx(r.status_code))

\* C8 as amended: the CDR and the attach-history normalizers give the error
\* object {error: "API returned <status>", detail: body text} for every status
\* other than 200, other 2xx statuses included, and only for those.
C8_ErrorObjectIffNot200 ==
    \A i \in Invoked : \A r \in Responses(i, "cdr") \cup Responses(i, "attach") :
        Done(i) => (ReturnedErrorObject(i, r) <=> r.status_code /= 200)

\* a 2xx status other than 200 was reported as an error
C8_Witness ==
    \E i \in Invoked : \E r \in Responses(i, "cdr") \cup Responses(i, "attach") :
        Done(i) /\ r.status_code = 204 /\ ReturnedErrorObject(i, r)

-----------------------------------------------------------------------------
(* C9 *)

\* a usage counter as upstream sends it: missing, an integer, or decimal digits
CounterOk(c) ==
    \/ c = Absent
    \/ c.t = "int"
    \/ c.t = "str" /\ c.s /= <<>> /\ \A k \in 1..Len(c.s) : c.s[k] \in Digits

\* the integer a usage counter stands for
CounterValue(c) ==
    IF c = Absent THEN 0
    ELSE IF c.t = "int" THEN c.n
    ELSE IF c = Str(<<"1", "0", "4", "8", "5", "7", "6">>) THEN 1048576
    ELSE ParseDigits(c.s)

UsageOf(e) == Sub(Sub(Sub(e, "body"), "dataSession"), "usage")
CounterNames == {"uplink", "downlink", "total"}

\* a CDR payload whose content entries have the upstream shape
CdrContentOk(d) ==
    /\ Field(d, "content").t \in {"absent", "list"}
    /\ \A k \in 1..Len(ListField(d, "content")) :
           /\ CdrEntryObject(ListField(d, "content")[k])
           /\ \A c \in CounterNames : CounterOk(Field(UsageOf(ListField(d, "content")[k]), c))

\* C9: a successful CDR payload with totalElements = 0 gives status inactive,
\* totalElements 0 and no records key, whatever its content list holds; one with
\* totalElements > 0 gives status active and one record per content entry in
\* upstream order, each usage counter the integer the upstream counter stands
\* for, 0 when it is absent.
C9_CdrRecordsAndCounters ==
    \A i \in Invoked : \A r \in Responses(i, "cdr") :
        (Done(i) /\ r.status_code = 200 /\ JsonObject(r)) =>
        LET te == Field(Payload(r), "totalElements")
            content == ListField(Payload(r), "content") IN
        /\ te = PyInt(0) =>
               /\ ReturnedObject(i)
               /\ Field(Doc(i), "status") = Lit("inactive")
               /\ Field(Doc(i), "totalElements") = PyInt(0)
               /\ "records" \notin DOMAIN Doc(i).o
        /\ (te.t = "int" /\ te.n > 0 /\ CdrContentOk(Payload(r))) =>
               /\ ReturnedObject(i)
               /\ Field(Doc(i), "status") = Lit("active")
               /\ Field(Doc(i), "records").t = "list"
               /\ Len(Doc(i).o["records"].l) = Len(content)
               /\ \A k \in 1..Len(content) :
                      LET rec == Doc(i).o["records"].l[k] IN
                      /\ rec.o["eventDate"] = OrNone(Field(Sub(content[k], "header"), "eventDate"))
                      /\ rec.o["apn"] =
                             OrNone(Field(Sub(Sub(content[k], "body"), "dataSession"), "apn"))
                      /\ \A c \in CounterNames :
                             rec.o["usage"].o[c] =
                                 PyInt(CounterValue(Field(UsageOf(content[k]), c)))

\* a record whose upstream total is the string "1048576" and whose uplink is absent
C9_Witness ==
    \E i \in Invoked : \E r \in Responses(i, "cdr") :
        /\ Done(i) /\ r.status_code = 200 /\ JsonObject(r)
        /\ Field(Payload(r), "totalElements") = PyInt(2)
        /\ CdrContentOk(Payload(r))
        /\ Len(ListField(Payload(r), "content")) = 2
        /\ \E k \in 1..2 :
               /\ Field(UsageOf(ListField(Payload(r), "content")[k]), "total") =
                      Str(<<"1", "0", "4", "8", "5", "7", "6">>)
               /\ Field(UsageOf(ListField(Payload(r), "content")[k]), "uplink") = Absent
               /\ ReturnedObject(i)
               /\ Doc(i).o["records"].l[k].o["usage"].o["total"] = PyInt(1048576)
               /\ Doc(i).o["records"].l[k].o["usage"].o["uplink"] = PyInt(0)

-----------------------------------------------------------------------------
(* C10 *)

\* the token the token endpoint handed to invocation i, None when it handed none
OwnToken(i) ==
    IF \E r \in Responses(i, "token") : gen_token(r).kind = "return"
    THEN gen_token(CHOOSE r \in Responses(i, "token") : gen_token(r).kind = "return").value
    ELSE None

\* what the handler of invocation i makes of the replies to its own requests
OwnResult(i) ==
    CASE tool[i] = "get_data_session" /\ Responses(i, "data_session") /= {} ->
             helper_data_session(CHOOSE r \in Responses(i, "data_session") : TRUE)
      [] tool[i] = "get_cdr" /\ Responses(i, "cdr") /= {} ->
             helper_cdr(CHOOSE r \in Responses(i, "cdr") : TRUE)
      [] tool[i] = "get_network_attach" /\ Responses(i, "attach") /= {} ->
             except_ValueError(helper_network_attach(
                 CHOOSE r \in Responses(i, "attach") : TRUE, last_only[i]))
      [] tool[i] = "get_network_attach" /\ Responses(i, "attach") = {}
            /\ Responses(i, "sim_search") /= {} ->
             except_ValueError(get_sim_serial(
                 CHOOSE r \in Responses(i, "sim_search") : TRUE, imsi[i]))
      [] OTHER ->
             LET r == gen_token(CHOOSE x \in Replies(i, "token") : TRUE) IN
             IF tool[i] = "get_network_attach" THEN except_ValueError(r) ELSE r

\* C10: under any interleaving of concurrent invocations, every GET of an
\* invocation is sent after that invocation acquired a token and carries that
\* token, the token an invocation holds is the one its own acquisition returned,
\* and what an invocation ends with is determined by the replies to its own
\* requests.
C10_InvocationsAreIsolated ==
    \A i \in Invoked :
        /\ \A k \in 1..Len(sent[i]) :
               sent[i][k].call /= "token" =>
                   /\ OwnToken(i) /= None
                   /\ sent[i][k].auth = Str(<<"Bearer ">> \o OwnToken(i).s)
        /\ token[i] = OwnToken(i)
        /\ Done(i) => outcome[i] = OwnResult(i)

\* two invocations overlapped: the one that acquired the later token sent its GET
\* while the other was still waiting for its reply
C10_Witness ==
    \E i, j \in Invoked :
        /\ i /= j
        /\ token[i] = IssuedToken(2) /\ token[j] = IssuedToken(1)
        /\ Len(sent[i]) >= 2 /\ Len(sent[j]) >= 2
        /\ Done(i) /\ ~Done(j)

=============================================================================
